---- MODULE Spec2Model ----
(***************************************************************************)
(* Wasmtime::WasiCtx (ext/src/ruby_api/wasi_ctx.rs): a Ruby object wrapping *)
(* a wasi_common WasiCtx whose three standard streams the host replaces by  *)
(* set_stdin_file, set_stdin_string, set_stdout_file, set_stdout_buffer,    *)
(* set_stderr_file and set_stderr_buffer, and which a guest execution       *)
(* obtains through get_inner.                                               *)
(***************************************************************************)
EXTENDS Integers, Sequences, FiniteSets, TLC

\* ---------------------------------------------------------------- bounds
MaxChunk == 2      \* longest guest write, largest guest read request
MaxCap == 2        \* largest capacity the host passes to a buffer setter
MaxFile == 2       \* longest file content the model follows
MaxHost == 1       \* longest string the host itself builds by appending
MaxDetOps == 3     \* guest operations driven through the two preset contexts
MaxClock == 1      \* host clock values the preset could see

\* ------------------------------------------------------------ the domains
Slots == {"stdin", "stdout", "stderr"}
Paths == {"p1", "p2", "d"}          \* p1 a regular file, p2 missing, d a directory
Strs == {"s1", "s2"}                \* Ruby String objects the host holds
Chunk(n) == [i \in 1..n |-> i]      \* the n bytes a guest write carries
Chunks == {Chunk(n) : n \in 0..MaxChunk}
ReadSizes == 1..MaxChunk
Caps == 0..MaxCap

Min(a, b) == IF a < b THEN a ELSE b

VARIABLES
    store,       \* the heap of wasi_common contexts (Arc<WasiCtxInner>): address -> slots
    rbInner,     \* WasiCtx.inner: the address the Ruby object's RefCell holds
    execInner,   \* the address a running guest execution holds, 0 when none runs
    fs,          \* the host filesystem: path -> [kind, content]
    handles,     \* open OS file handles per path
    rstr,        \* the host's Ruby strings: id -> [bytes, frozen]
    last,        \* the last setter call or guest stream operation and what it returned,
                 \* NoOp once the host or the execution has done anything else
    installed,   \* per slot, the last setter call that succeeded (history)
    stdinRead,   \* the bytes the guest has read from the ReadPipe stdin was last set to
    det,         \* two contexts built by the deterministic preset (0 = not built)
    detLog,      \* what each of the two contexts returned to the same guest operations
    detClock,    \* the host clock at each of the two constructions (history)
    hostClock    \* the host's clock, which the preset must not read

vars == <<store, rbInner, execInner, fs, handles, rstr, last, installed,
          stdinRead, det, detLog, detClock, hostClock>>
mainVars == <<store, rbInner, execInner, fs, handles, rstr, last, installed, stdinRead>>
detVars == <<det, detLog, detClock, hostClock>>

\* --------------------------------------------------------------- backends
\* wasi_common::WasiCtx::new wires stdin to ReadPipe(io::empty()) and stdout,
\* stderr to WritePipe(io::sink()).
EmptySource == [kind |-> "empty"]
NullSink == [kind |-> "sink"]
\* the host's own stdio, as a builder's inherit_stdio wires it
Inherit == [kind |-> "stdio"]

\* wasi_file(file): the open file as a WASI file, with its own cursor
wasi_file(path, mode) == [kind |-> "file", path |-> path, mode |-> mode, pos |-> 0]

\* ReadPipe::from(&[u8]): a cursor over a copy (to_vec) of the slice
ReadPipe_from(bytes) == [kind |-> "read_pipe", data |-> bytes, pos |-> 0]

\* OutputLimitedBuffer::new(buffer, capacity) inside WritePipe::new
OutputLimitedBuffer_new(buffer, capacity) ==
    [kind |-> "limited_buffer", buffer |-> buffer, capacity |-> capacity]

\* file_r(path): File::open; Err when the path is no readable regular file
file_r(path) ==
    IF fs[path].kind = "regular"
    THEN [ok |-> TRUE, fs |-> fs]
    ELSE [ok |-> FALSE, fs |-> fs]

\* file_w(path): File::create; creates a missing file, truncates an existing one,
\* Err when the path cannot be written (a directory)
file_w(path) ==
    IF fs[path].kind \in {"regular", "missing"}
    THEN [ok |-> TRUE, fs |-> [fs EXCEPT ![path] = [kind |-> "regular", content |-> <<>>]]]
    ELSE [ok |-> FALSE, fs |-> fs]

\* the deterministic preset: build_wasi_ctx() takes nothing from the host
wasi_deterministic_ctx ==
    [stdin |-> EmptySource, stdout |-> NullSink, stderr |-> NullSink]

\* a context a WasiCtxBuilder made, handed to from_inner
BuilderCtxs == {[stdin |-> Inherit, stdout |-> Inherit, stderr |-> Inherit]}

\* ----------------------------------------------------- ownership of handles
Opened(h, b) == IF b.kind = "file" THEN [h EXCEPT ![b.path] = @ + 1] ELSE h
Dropped(h, b) == IF b.kind = "file" THEN [h EXCEPT ![b.path] = @ - 1] ELSE h

\* WasiCtxImpl::set_stdin / set_stdout / set_stderr: the table entry of the slot is
\* overwritten in one step and the entry it held is dropped
insert_file(slot, new) ==
    /\ store' = [store EXCEPT ![rbInner][slot] = new]
    /\ handles' = Dropped(Opened(handles, new), store[rbInner][slot])

NoOp == [op |-> "none", slot |-> "none", result |-> "ok"]
Called(op, slot, result) == [op |-> op, slot |-> slot, result |-> result]
Request(op, arg, cap) == [op |-> op, arg |-> arg, cap |-> cap]

\* Option::unwrap on Err: the setter panics before it touches the context; the
\* borrow is released by unwinding
Panicked(op, slot) ==
    /\ last' = Called(op, slot, "panic")
    /\ UNCHANGED <<store, rbInner, execInner, fs, handles, rstr, installed, stdinRead>>

\* ---------------------------------------------------------------- setters
\* set_stdin_file taking the old backend out of the slot before it opens the path
set_stdin_file_take(path) ==
    LET cs == file_r(path) IN
    IF cs.ok
    THEN /\ insert_file("stdin", wasi_file(path, "r"))
         /\ fs' = cs.fs
         /\ last' = Called("set_stdin_file", "stdin", "ok")
         /\ installed' = [installed EXCEPT !["stdin"] = Request("set_stdin_file", path, 0)]
         /\ stdinRead' = <<>>
         /\ UNCHANGED <<rbInner, execInner, rstr>>
    ELSE /\ insert_file("stdin", [kind |-> "free"])
         /\ last' = Called("set_stdin_file", "stdin", "panic")
         /\ UNCHANGED <<rbInner, execInner, fs, rstr, installed, stdinRead>>

set_stdin_file(path) ==
    LET cs == file_r(path) IN
    IF cs.ok
    THEN /\ insert_file("stdin", wasi_file(path, "r"))
         /\ fs' = cs.fs
         /\ last' = Called("set_stdin_file", "stdin", "ok")
         /\ installed' = [installed EXCEPT !["stdin"] = Request("set_stdin_file", path, 0)]
         /\ stdinRead' = <<>>
         /\ UNCHANGED <<rbInner, execInner, rstr>>
    ELSE Panicked("set_stdin_file", "stdin")

\* set_stdin_string building the pipe over the slice less its last byte
set_stdin_string_short(content) ==
    LET str == rstr[content].bytes IN
    /\ insert_file("stdin", ReadPipe_from(IF str = <<>> THEN str ELSE SubSeq(str, 1, Len(str) - 1)))
    /\ last' = Called("set_stdin_string", "stdin", "ok")
    /\ installed' = [installed EXCEPT !["stdin"] = Request("set_stdin_string", str, 0)]
    /\ stdinRead' = <<>>
    /\ UNCHANGED <<rbInner, execInner, fs, rstr>>

set_stdin_string(content) ==
    /\ insert_file("stdin", ReadPipe_from(rstr[content].bytes))
    /\ last' = Called("set_stdin_string", "stdin", "ok")
    /\ installed' = [installed EXCEPT
                       !["stdin"] = Request("set_stdin_string", rstr[content].bytes, 0)]
    /\ stdinRead' = <<>>
    /\ UNCHANGED <<rbInner, execInner, fs, rstr>>

\* set_stdout_file installing the backend although the open failed
set_stdout_file_broken(path) ==
    LET cs == file_w(path) IN
    /\ insert_file("stdout", wasi_file(path, "w"))
    /\ fs' = cs.fs
    /\ last' = Called("set_stdout_file", "stdout", IF cs.ok THEN "ok" ELSE "panic")
    /\ installed' = IF cs.ok
                     THEN [installed EXCEPT !["stdout"] = Request("set_stdout_file", path, 0)]
                     ELSE installed
    /\ UNCHANGED <<rbInner, execInner, rstr, stdinRead>>

\* set_stdout_file opening the path and leaving the slot as it was
set_stdout_file_keep(path) ==
    LET cs == file_w(path) IN
    IF cs.ok
    THEN /\ fs' = cs.fs
         /\ last' = Called("set_stdout_file", "stdout", "ok")
         /\ installed' = [installed EXCEPT !["stdout"] = Request("set_stdout_file", path, 0)]
         /\ UNCHANGED <<store, handles, rbInner, execInner, rstr, stdinRead>>
    ELSE Panicked("set_stdout_file", "stdout")

set_stdout_file(path) ==
    LET cs == file_w(path) IN
    IF cs.ok
    THEN /\ insert_file("stdout", wasi_file(path, "w"))
         /\ fs' = cs.fs
         /\ last' = Called("set_stdout_file", "stdout", "ok")
         /\ installed' = [installed EXCEPT !["stdout"] = Request("set_stdout_file", path, 0)]
         /\ UNCHANGED <<rbInner, execInner, rstr, stdinRead>>
    ELSE Panicked("set_stdout_file", "stdout")

\* set_stdout_buffer passing a capacity one byte too large
set_stdout_buffer_wide(buffer, capacity) ==
    /\ insert_file("stdout", OutputLimitedBuffer_new(buffer, capacity + 1))
    /\ last' = Called("set_stdout_buffer", "stdout", "ok")
    /\ installed' = [installed EXCEPT
                       !["stdout"] = Request("set_stdout_buffer", buffer, capacity)]
    /\ UNCHANGED <<rbInner, execInner, fs, rstr, stdinRead>>

\* set_stdout_buffer refusing a frozen buffer when it is installed
set_stdout_buffer_eager(buffer, capacity) ==
    IF rstr[buffer].frozen
    THEN Panicked("set_stdout_buffer", "stdout")
    ELSE /\ insert_file("stdout", OutputLimitedBuffer_new(buffer, capacity))
         /\ last' = Called("set_stdout_buffer", "stdout", "ok")
         /\ installed' = [installed EXCEPT
                            !["stdout"] = Request("set_stdout_buffer", buffer, capacity)]
         /\ UNCHANGED <<rbInner, execInner, fs, rstr, stdinRead>>

set_stdout_buffer(buffer, capacity) ==
    /\ insert_file("stdout", OutputLimitedBuffer_new(buffer, capacity))
    /\ last' = Called("set_stdout_buffer", "stdout", "ok")
    /\ installed' = [installed EXCEPT
                       !["stdout"] = Request("set_stdout_buffer", buffer, capacity)]
    /\ UNCHANGED <<rbInner, execInner, fs, rstr, stdinRead>>

set_stderr_file(path) ==
    LET cs == file_w(path) IN
    IF cs.ok
    THEN /\ insert_file("stderr", wasi_file(path, "w"))
         /\ fs' = cs.fs
         /\ last' = Called("set_stderr_file", "stderr", "ok")
         /\ installed' = [installed EXCEPT !["stderr"] = Request("set_stderr_file", path, 0)]
         /\ UNCHANGED <<rbInner, execInner, rstr, stdinRead>>
    ELSE Panicked("set_stderr_file", "stderr")

\* set_stderr_buffer passing a capacity one byte too large
set_stderr_buffer_wide(buffer, capacity) ==
    /\ insert_file("stderr", OutputLimitedBuffer_new(buffer, capacity + 1))
    /\ last' = Called("set_stderr_buffer", "stderr", "ok")
    /\ installed' = [installed EXCEPT
                       !["stderr"] = Request("set_stderr_buffer", buffer, capacity)]
    /\ UNCHANGED <<rbInner, execInner, fs, rstr, stdinRead>>

set_stderr_buffer(buffer, capacity) ==
    /\ insert_file("stderr", OutputLimitedBuffer_new(buffer, capacity))
    /\ last' = Called("set_stderr_buffer", "stderr", "ok")
    /\ installed' = [installed EXCEPT
                       !["stderr"] = Request("set_stderr_buffer", buffer, capacity)]
    /\ UNCHANGED <<rbInner, execInner, fs, rstr, stdinRead>>

\* ------------------------------------------------------ the guest's streams
\* a write of chunk at the cursor of an open file
WriteAt(content, pos, chunk) ==
    LET n == Len(chunk)
        len == IF Len(content) > pos + n THEN Len(content) ELSE pos + n
    IN [i \in 1..len |->
          IF i > pos /\ i <= pos + n THEN chunk[i - pos]
          ELSE IF i <= Len(content) THEN content[i]
          ELSE 0]

\* OutputLimitedBuffer::write: a frozen buffer and a write beyond the capacity are
\* errors that leave the buffer alone; otherwise the bytes are appended
OutputLimitedBuffer_write(b, chunk, strs) ==
    LET s == strs[b.buffer] IN
    IF s.frozen
    THEN [result |-> "BufferImmutableError", strs |-> strs]
    ELSE IF Len(s.bytes) + Len(chunk) > b.capacity
    THEN [result |-> "CapacityExceededError", strs |-> strs]
    ELSE [result |-> "ok", strs |-> [strs EXCEPT ![b.buffer].bytes = @ \o chunk]]

\* fd_write on the backend b of a slot: what it returns and what it leaves
WriteBackend(b, chunk, files, strs) ==
    CASE b.kind = "limited_buffer" ->
           LET w == OutputLimitedBuffer_write(b, chunk, strs) IN
           [result |-> w.result, backend |-> b, fs |-> files, rstr |-> w.strs]
      [] b.kind = "file" ->
           [result |-> "ok",
            backend |-> [b EXCEPT !.pos = @ + Len(chunk)],
            fs |-> [files EXCEPT ![b.path].content = WriteAt(@, b.pos, chunk)],
            rstr |-> strs]
      [] OTHER -> [result |-> "ok", backend |-> b, fs |-> files, rstr |-> strs]

\* the bytes of data from cursor pos, at most n of them
Take(data, pos, n) ==
    IF pos >= Len(data) THEN <<>> ELSE SubSeq(data, pos + 1, Min(pos + n, Len(data)))

\* fd_read of at most n bytes on the backend b of stdin: the possible outcomes
ReadBackend(b, n, files) ==
    CASE b.kind = "read_pipe" ->
           LET got == Take(b.data, b.pos, n) IN
           {[got |-> got, backend |-> [b EXCEPT !.pos = @ + Len(got)]]}
      [] b.kind = "file" ->
           LET got == Take(files[b.path].content, b.pos, n) IN
           {[got |-> got, backend |-> [b EXCEPT !.pos = @ + Len(got)]]}
      [] b.kind = "stdio" -> {[got |-> g, backend |-> b] : g \in {<<>>, Chunk(1)}}
      [] OTHER -> {[got |-> <<>>, backend |-> b]}

\* get_inner returning a deep copy of the context instead of a clone of the Arc
get_inner_copy == [inner |-> 2, store |-> [store EXCEPT ![2] = store[rbInner]]]

\* get_inner: a clone of the Arc, the same context
get_inner == [inner |-> rbInner, store |-> store]

\* Store.new(wasi_ctx: ctx): an execution takes the context through get_inner
GuestLaunch ==
    /\ execInner = 0
    /\ LET c == get_inner IN
         /\ execInner' = c.inner
         /\ store' = c.store
    /\ last' = NoOp
    /\ UNCHANGED <<rbInner, fs, handles, rstr, installed, stdinRead>>

GuestFinish ==
    /\ execInner # 0
    /\ execInner' = 0
    /\ last' = NoOp
    /\ UNCHANGED <<store, rbInner, fs, handles, rstr, installed, stdinRead>>

GuestWrite(slot, chunk) ==
    /\ execInner # 0
    /\ LET b == store[execInner][slot]
           w == WriteBackend(b, chunk, fs, rstr)
       IN /\ b.kind = "file" => b.pos + Len(chunk) <= MaxFile
          /\ store' = [store EXCEPT ![execInner][slot] = w.backend]
          /\ fs' = w.fs
          /\ rstr' = w.rstr
          /\ last' = Called("write", slot, w.result)
    /\ UNCHANGED <<rbInner, execInner, handles, installed, stdinRead>>

GuestRead(n) ==
    /\ execInner # 0
    /\ \E r \in ReadBackend(store[execInner]["stdin"], n, fs) :
          /\ store' = [store EXCEPT ![execInner]["stdin"] = r.backend]
          /\ stdinRead' = IF store[execInner]["stdin"].kind = "read_pipe"
                           THEN stdinRead \o r.got ELSE stdinRead
          /\ last' = Called("read", "stdin", IF r.got = <<>> THEN "eof" ELSE "ok")
    /\ UNCHANGED <<rbInner, execInner, fs, handles, rstr, installed>>

\* ------------------------------------------------------------------ the host
\* String#freeze
HostFreeze(s) ==
    /\ ~rstr[s].frozen
    /\ rstr' = [rstr EXCEPT ![s].frozen = TRUE]
    /\ last' = NoOp
    /\ UNCHANGED <<store, rbInner, execInner, fs, handles, installed, stdinRead>>

\* String#<< on a string the host still holds
HostAppend(s) ==
    /\ ~rstr[s].frozen
    /\ Len(rstr[s].bytes) < MaxHost
    /\ rstr' = [rstr EXCEPT ![s].bytes = Append(@, 10 + Len(@))]
    /\ last' = NoOp
    /\ UNCHANGED <<store, rbInner, execInner, fs, handles, installed, stdinRead>>

\* String#replace on a string the host still holds
HostReplace(s, bytes) ==
    /\ ~rstr[s].frozen
    /\ rstr[s].bytes # bytes
    /\ rstr' = [rstr EXCEPT ![s].bytes = bytes]
    /\ last' = NoOp
    /\ UNCHANGED <<store, rbInner, execInner, fs, handles, installed, stdinRead>>

\* ------------------------------------------------------- the preset, twice
\* a preset whose stdin carries the host's clock
deterministic_leaky ==
    [stdin |-> ReadPipe_from(Chunk(hostClock)), stdout |-> NullSink, stderr |-> NullSink]

\* WasiCtx::deterministic() and WasiCtx::from_inner(inner)
deterministic == wasi_deterministic_ctx
from_inner(inner) == inner

Addrs == 1..2
Free == [stdin |-> [kind |-> "free"], stdout |-> [kind |-> "free"], stderr |-> [kind |-> "free"]]

\* the host's clock advances between and after the two constructions
HostTick ==
    /\ hostClock < MaxClock
    /\ hostClock' = hostClock + 1
    /\ UNCHANGED <<det, detLog, detClock>>

DetBuild(i) ==
    /\ det[i] = Free
    /\ det' = [det EXCEPT ![i] = deterministic]
    /\ detClock' = [detClock EXCEPT ![i] = hostClock]
    /\ UNCHANGED <<detLog, hostClock>>

\* the same guest write issued to both contexts
DetWrite(slot, chunk) ==
    /\ \A i \in 1..2 : det[i] # Free
    /\ Len(detLog[1]) < MaxDetOps
    /\ LET w == [i \in 1..2 |-> WriteBackend(det[i][slot], chunk, fs, rstr)] IN
         /\ det' = [i \in 1..2 |-> [det[i] EXCEPT ![slot] = w[i].backend]]
         /\ detLog' = [i \in 1..2 |->
                Append(detLog[i], [op |-> "write", slot |-> slot, result |-> w[i].result,
                                   got |-> <<>>, host |-> w[i].fs # fs \/ w[i].rstr # rstr])]
    /\ UNCHANGED <<detClock, hostClock>>

\* the same guest read issued to both contexts
DetRead(n) ==
    /\ \A i \in 1..2 : det[i] # Free
    /\ Len(detLog[1]) < MaxDetOps
    /\ \E r1 \in ReadBackend(det[1]["stdin"], n, fs), r2 \in ReadBackend(det[2]["stdin"], n, fs) :
         LET r == <<r1, r2>> IN
         /\ det' = [i \in 1..2 |-> [det[i] EXCEPT !["stdin"] = r[i].backend]]
         /\ detLog' = [i \in 1..2 |->
                Append(detLog[i], [op |-> "read", slot |-> "stdin",
                                   result |-> IF r[i].got = <<>> THEN "eof" ELSE "ok",
                                   got |-> r[i].got, host |-> FALSE])]
    /\ UNCHANGED <<detClock, hostClock>>

\* ---------------------------------------------------------- specifications
\* the state once the Ruby object wraps the context c
Constructed(c) ==
    /\ rbInner = 1
    /\ store = [a \in Addrs |-> IF a = 1 THEN c ELSE Free]
    /\ execInner = 0
    /\ fs = [p \in Paths |->
               CASE p = "p1" -> [kind |-> "regular", content |-> <<1>>]
                 [] p = "p2" -> [kind |-> "missing", content |-> <<>>]
                 [] OTHER -> [kind |-> "dir", content |-> <<>>]]
    /\ handles = [p \in Paths |-> 0]
    /\ rstr = [s \in Strs |-> [bytes |-> <<>>, frozen |-> FALSE]]
    /\ last = NoOp
    /\ installed = [s \in Slots |-> Request("init", "none", 0)]
    /\ stdinRead = <<>>
    /\ det = [i \in 1..2 |-> Free]
    /\ detLog = [i \in 1..2 |-> <<>>]
    /\ detClock = [i \in 1..2 |-> 0]

\* Wasmtime::WasiCtx.deterministic
InitPreset == hostClock = 0 /\ Constructed(deterministic)

\* WasiCtxBuilder#build, or the preset
Init ==
    /\ hostClock = 0
    /\ \E c \in {deterministic} \cup {from_inner(i) : i \in BuilderCtxs} : Constructed(c)

FileSetters ==
    \/ \E p \in Paths : set_stdin_file(p)
    \/ \E p \in Paths : set_stdout_file(p)
    \/ \E p \in Paths : set_stderr_file(p)

BufferSetters ==
    \/ \E s \in Strs, c \in Caps : set_stdout_buffer(s, c)
    \/ \E s \in Strs, c \in Caps : set_stderr_buffer(s, c)

StringSetter == \E s \in Strs : set_stdin_string(s)

Execution == GuestLaunch \/ GuestFinish

GuestWrites == \E sl \in {"stdout", "stderr"}, ch \in Chunks : GuestWrite(sl, ch)

GuestReads == \E n \in ReadSizes : GuestRead(n)

HostStrings == \E s \in Strs : HostFreeze(s) \/ HostAppend(s)

HostReplaces == \E s \in Strs, v \in Chunks : HostReplace(s, v)

\* configuration: every setter, and the hand-off to an execution
NextCfg == (FileSetters \/ BufferSetters \/ StringSetter \/ Execution) /\ UNCHANGED detVars
SpecCfg == Init /\ [][NextCfg]_vars

\* file backends under a running guest
NextFile == (FileSetters \/ Execution \/ GuestWrites \/ GuestReads) /\ UNCHANGED detVars
SpecFile == InitPreset /\ [][NextFile]_vars

\* bounded buffers under a running guest, the host holding the same strings
NextSink == (BufferSetters \/ Execution \/ GuestWrites \/ HostStrings) /\ UNCHANGED detVars
SpecSink == InitPreset /\ [][NextSink]_vars

\* stdin from a string
NextStdin == (StringSetter \/ Execution \/ GuestReads \/ HostReplaces) /\ UNCHANGED detVars
SpecStdin == Init /\ [][NextStdin]_vars

\* one execution sharing the context with a host that keeps configuring it
NextShare == (BufferSetters \/ GuestLaunch \/ GuestWrites) /\ UNCHANGED detVars
SpecShare == InitPreset /\ [][NextShare]_vars

\* two preset contexts driven by the same guest operations
NextDet ==
    /\ \/ HostTick
       \/ \E i \in 1..2 : DetBuild(i)
       \/ \E sl \in {"stdout", "stderr"}, ch \in Chunks : DetWrite(sl, ch)
       \/ \E n \in ReadSizes : DetRead(n)
    /\ UNCHANGED mainVars
SpecDet == Init /\ [][NextDet]_vars

Next == NextCfg \/ NextFile \/ NextSink \/ NextStdin \/ NextShare \/ NextDet
Spec == Init /\ [][Next]_vars

\* ------------------------------------------------------------- properties
ReadKinds == {"empty", "stdio", "file", "read_pipe"}
WriteKinds == {"sink", "stdio", "file", "limited_buffer"}
Populated(c) ==
    /\ c.stdin.kind \in ReadKinds
    /\ c.stdout.kind \in WriteKinds
    /\ c.stderr.kind \in WriteKinds
FileSetterOps == {"set_stdin_file", "set_stdout_file", "set_stderr_file"}
FileSinkOps == {"set_stdout_file", "set_stderr_file"}
BufferOps == {"set_stdout_buffer", "set_stderr_buffer"}
OutSlots == {"stdout", "stderr"}

\* C1: in every reachable state, whether the setters called so far succeeded or
\* failed, each of stdin, stdout and stderr holds a backend of its direction, in
\* the context the Ruby object holds and in the one a running execution sees.
C1_SlotsAlwaysPopulated ==
    /\ Populated(store[rbInner])
    /\ execInner # 0 => Populated(store[execInner])

\* a file setter has just failed on a context whose three slots were all replaced
\* and which an execution holds
C1_Witness ==
    /\ last.result = "panic"
    /\ \A sl \in Slots : installed[sl].op # "init"
    /\ execInner # 0

\* C4: a file setter called with a path that cannot be opened returns a
\* recoverable IoError and never panics.
C4_OpenFailureIsIoError ==
    last.op \in FileSetterOps => last.result \in {"ok", "IoError"}

\* C5: a file setter that fails to open its path installs nothing: the slots, the
\* open handles, the files and the execution are as before the call, and no
\* guest read or write ever returns an error because of it.
C5_FailedOpenInstallsNothing ==
    /\ [](last.op \in {"read", "write"} => last.result \in {"ok", "eof"})
    /\ [][last'.result = "panic" =>
            /\ store' = store
            /\ handles' = handles
            /\ fs' = fs
            /\ installed' = installed
            /\ execInner' = execInner]_vars

\* set_stdout_file has just failed while stdout holds the file an earlier call
\* installed, which a running guest has already written to
C5_Witness ==
    /\ last = Called("set_stdout_file", "stdout", "panic")
    /\ installed["stdout"].op = "set_stdout_file"
    /\ store[rbInner]["stdout"].kind = "file"
    /\ store[rbInner]["stdout"].pos > 0
    /\ execInner # 0

HandlesHeld(p) ==
    Cardinality({sl \in Slots : /\ store[rbInner][sl].kind = "file"
                                /\ store[rbInner][sl].path = p})

\* C6: a guest write to a slot whose last successful setter was a file setter on
\* path p lands in p, at the cursor of the backend the slot now holds, and
\* changes no other file; and the only open file handles are those of the
\* backends the slots hold now, so a replaced backend has been released.
C6_OnlyNewBackendReceives ==
    /\ [](\A p \in Paths : handles[p] = HandlesHeld(p))
    /\ [][last'.op = "write" /\ installed[last'.slot].op \in FileSinkOps =>
            \A ch \in Chunks :
               GuestWrite(last'.slot, ch) =>
                  LET p == installed[last'.slot].arg
                      b == store[rbInner][last'.slot]
                  IN /\ b.kind = "file"
                     /\ b.path = p
                     /\ fs' = [fs EXCEPT ![p].content = WriteAt(@, b.pos, ch)]
                     /\ last'.result = "ok"]_vars

\* stdout was set to p1 and then to p2 (stderr never set); the guest has written,
\* p2 holds the bytes, p1 is empty and its handle is closed
C6_Witness ==
    /\ installed["stderr"].op = "init"
    /\ installed["stdin"].op = "init"
    /\ installed["stdout"] = Request("set_stdout_file", "p2", 0)
    /\ last = Called("write", "stdout", "ok")
    /\ fs["p1"].content = <<>>
    /\ fs["p2"].content = Chunk(2)
    /\ handles["p1"] = 0
    /\ handles["p2"] = 1

\* C2 as stated: the buffer of an installed bounded sink never holds more than
\* the capacity it was installed with.
C2_BufferNeverExceedsCapacity ==
    \A sl \in OutSlots :
        installed[sl].op \in BufferOps =>
            Len(rstr[installed[sl].arg].bytes) <= installed[sl].cap

\* C2 as amended: a guest write through a bounded sink installed with capacity C
\* changes no string but the sink's buffer, and whenever it changes the buffer it
\* leaves at most C bytes in it.
C2_WritesRespectCapacity ==
    [][last'.op = "write" /\ installed[last'.slot].op \in BufferOps =>
         LET b == installed[last'.slot].arg IN
         /\ \A s \in Strs \ {b} : rstr'[s] = rstr[s]
         /\ rstr'[b] # rstr[b] => Len(rstr'[b].bytes) <= installed[last'.slot].cap]_vars

\* a guest write has just filled the buffer of stdout to its capacity
C2_Witness ==
    /\ last = Called("write", "stdout", "ok")
    /\ installed["stdout"].op = "set_stdout_buffer"
    /\ installed["stdout"].cap = MaxCap
    /\ Len(rstr[installed["stdout"].arg].bytes) = MaxCap

\* what C3 says of a write of ch to the sink of slot sl
AllOrNothing(sl, ch) ==
    LET b == installed[sl].arg
        L == Len(rstr[b].bytes)
        C == installed[sl].cap
    IN /\ last'.result = "ok" <=> L + Len(ch) <= C
       /\ last'.result = "ok" => rstr' = [rstr EXCEPT ![b].bytes = @ \o ch]
       /\ last'.result # "ok" => last'.result = "CapacityExceededError" /\ rstr' = rstr

\* C3 as stated: a write of n bytes to a bounded sink holding L bytes with
\* capacity C succeeds iff L + n <= C; it then appends the bytes in order, and
\* otherwise fails with CapacityExceededError and leaves the buffer as it was.
C3_SucceedsIffFits ==
    [][last'.op = "write" /\ installed[last'.slot].op \in BufferOps =>
         \A ch \in Chunks : GuestWrite(last'.slot, ch) => AllOrNothing(last'.slot, ch)]_vars

\* C3 as amended: the same, for a buffer that is not frozen when the guest writes.
C3_SucceedsIffFitsUnfrozen ==
    [][/\ last'.op = "write"
       /\ installed[last'.slot].op \in BufferOps
       /\ ~rstr[installed[last'.slot].arg].frozen
       => \A ch \in Chunks : GuestWrite(last'.slot, ch) => AllOrNothing(last'.slot, ch)]_vars

\* two one-byte writes filled a buffer of capacity 2 and a third write was refused
C3_Witness ==
    /\ last = Called("write", "stdout", "CapacityExceededError")
    /\ installed["stdout"].op = "set_stdout_buffer"
    /\ installed["stdout"].cap = 2
    /\ rstr[installed["stdout"].arg].bytes = Chunk(1) \o Chunk(1)
    /\ ~rstr[installed["stdout"].arg].frozen

\* C7: a guest write to a bounded sink whose buffer is frozen fails with
\* BufferImmutableError, not CapacityExceededError, and changes no string; and
\* a buffer setter succeeds and installs the sink whether or not the buffer is
\* frozen.
C7_FrozenBufferFailsTheWrite ==
    /\ [](last.op \in BufferOps =>
            /\ last.result = "ok"
            /\ store[rbInner][last.slot] =
                  OutputLimitedBuffer_new(installed[last.slot].arg, installed[last.slot].cap))
    /\ [][/\ last'.op = "write"
           /\ installed[last'.slot].op \in BufferOps
           /\ rstr[installed[last'.slot].arg].frozen
           => last'.result = "BufferImmutableError" /\ rstr' = rstr]_vars

\* the guest wrote to the buffer of stdout, the host froze it, and the next write
\* that would have fitted was refused
C7_Witness ==
    /\ last = Called("write", "stdout", "BufferImmutableError")
    /\ installed["stdout"].op = "set_stdout_buffer"
    /\ rstr[installed["stdout"].arg].frozen
    /\ rstr[installed["stdout"].arg].bytes = Chunk(1)
    /\ installed["stdout"].cap = MaxCap

FromString == installed["stdin"].op = "set_stdin_string"

\* C8: after set_stdin_string(content) the bytes the guest has read are a prefix
\* of content as it was at the call; a read returns bytes while some are left
\* and signals end of stream, reading nothing, once all of content was read; so
\* end of stream is seen only with exactly content read, whatever the host did
\* to its string meanwhile.
C8_StdinYieldsContent ==
    /\ [](FromString =>
            LET c == installed["stdin"].arg IN
            /\ Len(stdinRead) <= Len(c)
            /\ stdinRead = SubSeq(c, 1, Len(stdinRead))
            /\ last = Called("read", "stdin", "eof") => stdinRead = c)
    /\ [][\A n \in ReadSizes :
            GuestRead(n) /\ FromString =>
               LET c == installed["stdin"].arg IN
               IF stdinRead = c
               THEN last'.result = "eof" /\ stdinRead' = stdinRead
               ELSE /\ last'.result = "ok"
                    /\ Len(stdinRead') = Min(Len(stdinRead) + n, Len(c))]_vars

\* the guest read a two-byte content to its end after the host had changed the
\* strings it holds
C8_Witness ==
    /\ FromString
    /\ installed["stdin"].arg = Chunk(2)
    /\ stdinRead = Chunk(2)
    /\ last = Called("read", "stdin", "eof")
    /\ \A s \in Strs : rstr[s].bytes # Chunk(2)

C10_WriteGoesToCurrentBackend ==
    [][last'.op = "write" =>
         \A ch \in Chunks :
            GuestWrite(last'.slot, ch) =>
               LET w == WriteBackend(store[rbInner][last'.slot], ch, fs, rstr) IN
               /\ rstr' = w.rstr
               /\ fs' = w.fs
               /\ last'.result = w.result]_vars

\* one execution's stdout is split: its bytes are in s1, which stdout held first,
\* and in s2, which the host installed while the execution ran
C10_Witness ==
    /\ execInner # 0
    /\ installed["stderr"].op = "init"
    /\ installed["stdout"].op = "set_stdout_buffer"
    /\ installed["stdout"].arg = "s2"
    /\ rstr["s1"].bytes # <<>>
    /\ rstr["s2"].bytes # <<>>
    /\ last = Called("write", "stdout", "ok")

====
